---- MODULE Spec2Model ----
(***************************************************************************)
(* Books API server (Express + pg, with an in-memory fallback store).      *)
(* The server keeps a process-wide flag useMockData, an in-memory array    *)
(* mockBooks and a pg connection pool.  Every handler reads the flag when  *)
(* it runs; the fallback branch is synchronous, the relational branch      *)
(* awaits pool.query and answers when the store replies.                   *)
(***************************************************************************)
EXTENDS Integers, Sequences, FiniteSets, Bags, TLC

\* ------------------------------------------------------------- bounds
\* largest id the fallback store may hand out
MaxId == 5
\* largest value of the relational id sequence
MaxSerial == 1
\* relational requests that may await the store at the same time
MaxInflight == 1
\* fetch calls a page awaits at one time
MaxCalls == 2

\* ------------------------------------------------------------- values
\* a key absent from the JSON body / a JS undefined
UNDEF == "<undefined>"
\* SQL NULL (pg sends an undefined parameter as NULL)
NULL == "<null>"
\* the result of parseInt on a string with no leading digits
NaN == -1

Body(t, a, c, p, d) == [title |-> t, author |-> a, category |-> c, photo |-> p, pdf |-> d]

Book(i, t, a, c, p, d) ==
  [id |-> i, title |-> t, author |-> a, category |-> c, photo |-> p, pdf |-> d]

NoBody == Body(UNDEF, UNDEF, UNDEF, UNDEF, UNDEF)
NoBook == Book(0, UNDEF, UNDEF, UNDEF, UNDEF, UNDEF)
NoParam == << >>

\* request bodies the clients send
B_Dune == Body("Dune", "Herbert", UNDEF, UNDEF, UNDEF)
B_Full == Body("Dune 2", "Herbert", "SciFi", "", "d.pdf")
B_EmptyTitle == Body("", "X", UNDEF, UNDEF, UNDEF)
B_NoAuthor == Body("Dune", UNDEF, UNDEF, UNDEF, UNDEF)

\* the fields of B_Full together with an id of the client's own
B_WithId ==
  [title |-> "Dune 2", author |-> "Herbert", category |-> "SciFi", photo |-> "",
   pdf |-> "d.pdf", id |-> 9]

PostBodies == {B_Dune, B_Full, B_EmptyTitle, B_NoAuthor}
PutBodies == {B_WithId, B_EmptyTitle}

\* ------------------------------------------------------------- parseInt
Digits == <<"0", "1", "2", "3", "4", "5", "6", "7", "8", "9">>

IsDigit(c) == \E k \in 1..10 : Digits[k] = c

DigitVal(c) == (CHOOSE k \in 1..10 : Digits[k] = c) - 1

RECURSIVE ParsePrefix(_, _, _)
ParsePrefix(s, i, acc) ==
  IF i > Len(s) \/ ~IsDigit(s[i]) THEN acc
  ELSE ParsePrefix(s, i + 1, acc * 10 + DigitVal(s[i]))

\* parseInt(req.params.id): the leading decimal digits, NaN when there are none
ParseInt(s) ==
  IF Len(s) = 0 \/ ~IsDigit(s[1]) THEN NaN ELSE ParsePrefix(s, 1, 0)

\* the path parameter that spells a one-digit id
IdParam(i) == <<Digits[i + 1]>>

\* path parameters of the full system: an id that the relational store hands
\* out and the fallback store seeds, and one that is not a number
Params == {IdParam(1), <<"x">>}

\* path parameters of the fallback-only system: every id, one past the last and
\* a non-number
ParamsWide == {IdParam(i) : i \in 1..(MaxId + 1)} \cup {<<"x">>}

\* ------------------------------------------------------------- state
VARIABLES
  useMockData,  \* the mode flag
  probe,        \* the startup pool.connect: "pending", "ok", "failed", "threw"
  mockBooks,    \* the in-memory array
  dbRows,       \* the rows of table books
  dbSeq,        \* the last value of the id sequence of table books
  inflight,     \* the bag of relational requests awaiting pool.query
  res,          \* the last response sent
  ui            \* the client page: the pdf of the book it shows, the URL it opened

server == <<useMockData, probe, mockBooks, dbRows, dbSeq, inflight, res>>

vars == <<useMockData, probe, mockBooks, dbRows, dbSeq, inflight, res, ui>>

\* no URL: window.open was not called
NoUrl == <<"<none>">>

\* no page is open
\* editingBook is null
NoEdit == 0

UiIdle ==
  [page |-> "none", pdf |-> << >>, opened |-> NoUrl,
   bookId |-> NoEdit,        \* params.id of the detail page
   isLoading |-> FALSE, error |-> NULL,
   loaded |-> FALSE,         \* setBooks / setBook ran
   isAddingBook |-> FALSE, isEditing |-> FALSE,
   editingBook |-> NoEdit, formData |-> "empty",
   lastOpen |-> <<"none">>,  \* the last click that opened the list page's form
   calls |-> EmptyBag]       \* the fetch calls awaited

SeedBooks ==
  << Book(1, "Clean Code", "Robert Martin", "Technology", "", ""),
     Book(2, "Sapiens", "Yuval Harari", "History", "", ""),
     Book(3, "1984", "George Orwell", "Fiction", "", ""),
     Book(4, "The Art of War", "Sun Tzu", "Philosophy", "", "") >>

Req(op, param, body) == [op |-> op, param |-> param, body |-> body]

Resp(op, param, body, status, book, list, msg, mode) ==
  [op |-> op, param |-> param, body |-> body, status |-> status,
   book |-> book, list |-> list, msg |-> msg, mode |-> mode]

NoRes == Resp("none", NoParam, NoBody, 0, NoBook, << >>, "", "none")

\* new Pool(...) returned: the probe is on its way, the flag is still false
InitProbe ==
  /\ useMockData = FALSE
  /\ probe = "pending"
  /\ mockBooks = SeedBooks
  /\ dbRows = {}
  /\ dbSeq = 0
  /\ inflight = EmptyBag
  /\ res = NoRes
  /\ ui = UiIdle

\* new Pool(...) threw: the catch block set the flag, there is no probe
InitThrew ==
  /\ useMockData = TRUE
  /\ probe = "threw"
  /\ mockBooks = SeedBooks
  /\ dbRows = {}
  /\ dbSeq = 0
  /\ inflight = EmptyBag
  /\ res = NoRes
  /\ ui = UiIdle

Init == InitProbe \/ InitThrew

\* ------------------------------------------------------------- helpers
\* !v for the values a body field takes
Falsy(v) == v \in {UNDEF, NULL, ""}

\* v || ''
OrEmpty(v) == IF Falsy(v) THEN "" ELSE v

\* the validation with the author test dropped
Invalid_TitleOnly(body) == Falsy(body.title)

\* !title || !author
Invalid(body) == Falsy(body.title) \/ Falsy(body.author)

Max(S) == CHOOSE m \in S : \A x \in S : x <= m

\* the id taken from the length of the array
NewId_Length(books) == Len(books) + 1

\* the id taken from the first free slot
NewId_FillGap(books) ==
  CHOOSE n \in 1..(Len(books) + 1) :
    /\ \A k \in 1..Len(books) : books[k].id # n
    /\ \A m \in 1..(n - 1) : \E k \in 1..Len(books) : books[k].id = m

\* Math.max(...mockBooks.map(b => b.id), 0) + 1
NewId(books) == Max({books[k].id : k \in 1..Len(books)} \cup {0}) + 1

\* the object literal without the `|| ''` defaults
NewBook_NoDefaults(books, body) ==
  Book(NewId(books), body.title, body.author, body.category, body.photo, body.pdf)

\* the object literal newBook
NewBook(books, body) ==
  Book(NewId(books), body.title, body.author,
       OrEmpty(body.category), OrEmpty(body.photo), OrEmpty(body.pdf))

\* the new record written over the last slot (a lost create)
Push_Overwrite(books, b) ==
  IF books = << >> THEN <<b>> ELSE [books EXCEPT ![Len(books)] = b]

\* unshift in place of push
Push_Unshift(books, b) == <<b>> \o books

\* mockBooks.push(newBook)
Push(books, b) == Append(books, b)

\* mockBooks.findIndex(b => b.id === id), 1-based; 0 stands for -1.
\* NaN === NaN is false, and no book carries the NaN stand-in as its id.
FindIndex(books, id) ==
  IF id # NaN /\ \E k \in 1..Len(books) : books[k].id = id
  THEN CHOOSE k \in 1..Len(books) :
         /\ books[k].id = id
         /\ \A j \in 1..(k - 1) : books[j].id # id
  ELSE 0

\* the stored record kept wherever the body omits a field (a merge)
Updated_Merge(old, body) ==
  LET keep(f) == IF body[f] = UNDEF THEN old[f] ELSE body[f]
  IN Book(old.id, keep("title"), keep("author"), keep("category"), keep("photo"), keep("pdf"))

\* the whole body spread over the stored record: { ...mockBooks[bookIndex], ...req.body }
Updated_BodyId(old, body) ==
  Book(IF "id" \in DOMAIN body THEN body.id ELSE old.id,
       body.title, body.author, body.category, body.photo, body.pdf)

\* { ...mockBooks[bookIndex], title, author, category, photo, pdf }
Updated(old, body) ==
  Book(old.id, body.title, body.author, body.category, body.photo, body.pdf)

\* array.splice(-1, 1): the last element goes
SpliceOut_Last(seq, k) == SubSeq(seq, 1, Len(seq) - 1)

\* array.splice(k, 1)
SpliceOut(seq, k) ==
  [j \in 1..(Len(seq) - 1) |-> IF j < k THEN seq[j] ELSE seq[j + 1]]

\* pg sends an undefined parameter as NULL
DbParam(v) == IF v = UNDEF THEN NULL ELSE v

\* the row written by INSERT / UPDATE with parameters [title, author, category, photo, pdf]
DbRow(id, body) ==
  Book(id, DbParam(body.title), DbParam(body.author),
       DbParam(body.category), DbParam(body.photo), DbParam(body.pdf))

RECURSIVE SortById(_)
\* ORDER BY id
SortById(rows) ==
  IF rows = {} THEN << >>
  ELSE LET r == CHOOSE x \in rows : \A y \in rows : x.id <= y.id
       IN <<r>> \o SortById(rows \ {r})

\* INSERT statements among the requests awaiting the store
PendingInserts ==
  LET posts == {q \in BagToSet(inflight) : q.op = "POST"}
  IN BagCardinality([q \in posts |-> inflight[q]])

\* a relational request may start: room among the awaited queries
CanAwait == BagCardinality(inflight) < MaxInflight

\* ------------------------------------------------------------- actions
\* the callback of pool.connect
ProbeCallback(err) ==
  /\ probe = "pending"
  /\ probe' = IF err THEN "failed" ELSE "ok"
  /\ useMockData' = IF err THEN TRUE ELSE useMockData
  /\ UNCHANGED <<mockBooks, dbRows, dbSeq, inflight, res>>

\* the handler reaches `await pool.query(...)`: the request waits for the store
Await(op, param, body) ==
  /\ CanAwait
  /\ inflight' = inflight (+) SetToBag({Req(op, param, body)})
  /\ UNCHANGED <<useMockData, probe, mockBooks, dbRows, dbSeq, res>>

\* GET /
Root ==
  /\ res' = Resp("ROOT", NoParam, NoBody, 200, NoBook, << >>,
                 IF useMockData THEN "Mock Data" ELSE "PostgreSQL", "none")
  /\ UNCHANGED <<useMockData, probe, mockBooks, dbRows, dbSeq, inflight>>

\* GET /health
Health ==
  /\ res' = Resp("HEALTH", NoParam, NoBody, 200, NoBook, << >>,
                 IF useMockData THEN "Mock" ELSE "PostgreSQL", "none")
  /\ UNCHANGED <<useMockData, probe, mockBooks, dbRows, dbSeq, inflight>>

\* GET /books answering the seed literal in place of the array
ListBooks_Seeds ==
  IF useMockData
  THEN /\ res' = Resp("LIST", NoParam, NoBody, 200, NoBook, SeedBooks, "", "mock")
       /\ UNCHANGED <<useMockData, probe, mockBooks, dbRows, dbSeq, inflight>>
  ELSE Await("LIST", NoParam, NoBody)

\* GET /books
ListBooks ==
  IF useMockData
  THEN /\ res' = Resp("LIST", NoParam, NoBody, 200, NoBook, mockBooks, "", "mock")
       /\ UNCHANGED <<useMockData, probe, mockBooks, dbRows, dbSeq, inflight>>
  ELSE Await("LIST", NoParam, NoBody)

\* GET /books/:id
GetBook(param) ==
  LET id == ParseInt(param)
      k == FindIndex(mockBooks, id)
  IN IF useMockData
     THEN /\ res' = IF k = 0
                    THEN Resp("GET", param, NoBody, 404, NoBook, << >>, "Book not found", "mock")
                    ELSE Resp("GET", param, NoBody, 200, mockBooks[k], << >>, "", "mock")
          /\ UNCHANGED <<useMockData, probe, mockBooks, dbRows, dbSeq, inflight>>
     ELSE Await("GET", param, NoBody)

\* POST /books
PostBook(body) ==
  IF Invalid(body)
  THEN /\ res' = Resp("POST", NoParam, body, 400, NoBook, << >>,
                      "Title and author are required", "none")
       /\ UNCHANGED <<useMockData, probe, mockBooks, dbRows, dbSeq, inflight>>
  ELSE IF useMockData
  THEN LET newBook == NewBook(mockBooks, body)
       IN /\ newBook.id <= MaxId
          /\ mockBooks' = Push(mockBooks, newBook)
          /\ res' = Resp("POST", NoParam, body, 201, newBook, << >>, "", "mock")
          /\ UNCHANGED <<useMockData, probe, dbRows, dbSeq, inflight>>
  ELSE /\ dbSeq + PendingInserts < MaxSerial
       /\ Await("POST", NoParam, body)

\* PUT /books/:id
PutBook(param, body) ==
  LET id == ParseInt(param)
      bookIndex == FindIndex(mockBooks, id)
  IN IF useMockData
     THEN IF bookIndex = 0
          THEN /\ res' = Resp("PUT", param, body, 404, NoBook, << >>, "Book not found", "mock")
               /\ UNCHANGED <<useMockData, probe, mockBooks, dbRows, dbSeq, inflight>>
          ELSE /\ mockBooks' = [mockBooks EXCEPT ![bookIndex] = Updated(@, body)]
               /\ res' = Resp("PUT", param, body, 200, mockBooks'[bookIndex], << >>, "", "mock")
               /\ UNCHANGED <<useMockData, probe, dbRows, dbSeq, inflight>>
     ELSE Await("PUT", param, body)

\* DELETE /books/:id
DeleteBook(param) ==
  LET id == ParseInt(param)
      bookIndex == FindIndex(mockBooks, id)
  IN IF useMockData
     THEN IF bookIndex = 0
          THEN /\ res' = Resp("DELETE", param, NoBody, 404, NoBook, << >>, "Book not found", "mock")
               /\ UNCHANGED <<useMockData, probe, mockBooks, dbRows, dbSeq, inflight>>
          ELSE /\ mockBooks' = SpliceOut(mockBooks, bookIndex)
               /\ res' = Resp("DELETE", param, NoBody, 200, NoBook, << >>,
                              "Book deleted successfully", "mock")
               /\ UNCHANGED <<useMockData, probe, dbRows, dbSeq, inflight>>
     ELSE Await("DELETE", param, NoBody)

\* what the statement of request q does to the table, and the handler's answer
\* to the result: [rows, seq, status, book, list, msg]
DbExec(q, rows, seq) ==
  LET id == ParseInt(q.param)
      hit == {r \in rows : r.id = id}
      row == CHOOSE r \in hit : TRUE
      out(rs, sq, st, b, l, m) ==
        [rows |-> rs, seq |-> sq, status |-> st, book |-> b, list |-> l, msg |-> m]
      notFound == out(rows, seq, 404, NoBook, << >>, "Book not found")
      badId == out(rows, seq, 500, NoBook, << >>,
                   "invalid input syntax for type integer: \"NaN\"")
  IN CASE q.op = "LIST" -> out(rows, seq, 200, NoBook, SortById(rows), "")
       [] q.op = "POST" ->
            LET new == DbRow(seq + 1, q.body)
            IN out(rows \cup {new}, seq + 1, 201, new, << >>, "")
       [] q.op = "GET" ->
            IF id = NaN THEN badId
            ELSE IF hit = {} THEN notFound
            ELSE out(rows, seq, 200, row, << >>, "")
       [] q.op = "PUT" ->
            IF id = NaN THEN badId
            ELSE IF hit = {} THEN notFound
            ELSE LET new == DbRow(id, q.body)
                 IN out((rows \ hit) \cup {new}, seq, 200, new, << >>, "")
       [] q.op = "DELETE" ->
            IF id = NaN THEN badId
            ELSE IF hit = {} THEN notFound
            ELSE out(rows \ hit, seq, 200, NoBook, << >>, "Book deleted successfully")

\* a settled query whose catch block answers and leaves the request awaiting
QueryDone_AnswersTwice(q, ok) ==
  /\ BagIn(q, inflight)
  /\ LET r == DbExec(q, dbRows, dbSeq)
     IN /\ IF ok
           THEN /\ inflight' = inflight (-) SetToBag({q})
                /\ dbRows' = r.rows
                /\ dbSeq' = r.seq
                /\ res' = Resp(q.op, q.param, q.body, r.status, r.book, r.list, r.msg, "pg")
           ELSE /\ res' = Resp(q.op, q.param, q.body, 500, NoBook, << >>,
                               "connect ECONNREFUSED", "pg")
                /\ UNCHANGED <<inflight, dbRows, dbSeq>>
        /\ UNCHANGED <<useMockData, probe, mockBooks>>

\* a settled query whose catch block switches the process to the fallback store
QueryDone_FallsBack(q, ok) ==
  /\ BagIn(q, inflight)
  /\ LET r == DbExec(q, dbRows, dbSeq)
     IN /\ inflight' = inflight (-) SetToBag({q})
        /\ IF ok
           THEN /\ dbRows' = r.rows
                /\ dbSeq' = r.seq
                /\ res' = Resp(q.op, q.param, q.body, r.status, r.book, r.list, r.msg, "pg")
                /\ UNCHANGED useMockData
           ELSE /\ res' = Resp(q.op, q.param, q.body, 500, NoBook, << >>,
                               "connect ECONNREFUSED", "pg")
                /\ useMockData' = TRUE
                /\ UNCHANGED <<dbRows, dbSeq>>
        /\ UNCHANGED <<probe, mockBooks>>

\* a settled query that also rewrites the mode flag from its outcome
QueryDone_SetsMode(q, ok) ==
  /\ BagIn(q, inflight)
  /\ LET r == DbExec(q, dbRows, dbSeq)
     IN /\ inflight' = inflight (-) SetToBag({q})
        /\ IF ok
           THEN /\ dbRows' = r.rows
                /\ dbSeq' = r.seq
                /\ res' = Resp(q.op, q.param, q.body, r.status, r.book, r.list, r.msg, "pg")
           ELSE /\ res' = Resp(q.op, q.param, q.body, 500, NoBook, << >>,
                               "connect ECONNREFUSED", "pg")
                /\ UNCHANGED <<dbRows, dbSeq>>
        /\ useMockData' = ~ok
        /\ UNCHANGED <<probe, mockBooks>>

\* pool.query settles for the awaited request q: the statement ran (ok) or the
\* store could not be reached; the handler resumes and answers
QueryDone(q, ok) ==
  /\ BagIn(q, inflight)
  /\ LET r == DbExec(q, dbRows, dbSeq)
     IN /\ inflight' = inflight (-) SetToBag({q})
        /\ IF ok
           THEN /\ dbRows' = r.rows
                /\ dbSeq' = r.seq
                /\ res' = Resp(q.op, q.param, q.body, r.status, r.book, r.list, r.msg, "pg")
           ELSE /\ res' = Resp(q.op, q.param, q.body, 500, NoBook, << >>,
                               "connect ECONNREFUSED", "pg")
                /\ UNCHANGED <<dbRows, dbSeq>>
        /\ UNCHANGED <<useMockData, probe, mockBooks>>

\* ------------------------------------------------------------- client: links
\* the class [a-zA-Z0-9-_]
IdChars ==
  {"a", "b", "c", "d", "e", "f", "g", "h", "i", "j", "k", "l", "m", "n", "o", "p", "q", "r", "s", "t", "u", "v", "w", "x", "y", "z",
   "A", "B", "C", "D", "E", "F", "G", "H", "I", "J", "K", "L", "M", "N", "O", "P", "Q", "R", "S", "T", "U", "V", "W", "X", "Y", "Z",
   "0", "1", "2", "3", "4", "5", "6", "7", "8", "9", "-", "_"}

\* 'drive.google.com/file/d/'
DriveMarker ==
  <<"d", "r", "i", "v", "e", ".", "g", "o", "o", "g", "l", "e", ".", "c", "o", "m", "/", "f", "i", "l", "e", "/", "d", "/">>

\* `https://drive.google.com/file/d/`
DrivePrefix == <<"h", "t", "t", "p", "s", ":", "/", "/">> \o DriveMarker

\* `/view`
ViewSuffix == <<"/", "v", "i", "e", "w">>

\* String.prototype.includes
Includes(s, t) ==
  \E i \in 1..(Len(s) - Len(t) + 1) : SubSeq(s, i, i + Len(t) - 1) = t

Least(S) == CHOOSE i \in S : \A j \in S : i <= j

\* [a-zA-Z0-9-_]+ from position i: the longest run of characters of the class
RECURSIVE Run(_, _)
Run(s, i) ==
  IF i <= Len(s) /\ s[i] \in IdChars THEN <<s[i]>> \o Run(s, i + 1) ELSE << >>

\* /\/d\/([a-zA-Z0-9-_]+)/ matches at position i
MatchAt(s, i) ==
  /\ i + 3 <= Len(s)
  /\ s[i] = "/" /\ s[i + 1] = "d" /\ s[i + 2] = "/"
  /\ s[i + 3] \in IdChars

\* url.match(/\/d\/([a-zA-Z0-9-_]+)/)?.[1]: the capture of the leftmost match,
\* << >> for undefined
FileId(s) ==
  LET hits == {i \in 1..Len(s) : MatchAt(s, i)}
  IN IF hits = {} THEN << >> ELSE Run(s, Least(hits) + 3)

\* the URL the list page hands to window.open
ListLink(pdfUrl) ==
  LET fileId == FileId(pdfUrl)
  IN IF Includes(pdfUrl, DriveMarker)
     THEN IF fileId # << >> THEN DrivePrefix \o fileId \o ViewSuffix ELSE pdfUrl
     ELSE pdfUrl

\* the URL the detail page hands to window.open
DetailLink(pdf) ==
  IF Includes(pdf, DriveMarker)
  THEN LET fileId == FileId(pdf)
       IN IF fileId = << >> THEN pdf ELSE DrivePrefix \o fileId \o ViewSuffix
  ELSE pdf

\* the stored pdf values the pages are shown with
UrlHeads ==
  { << >>, <<"h", "t", "t", "p", "s", ":", "/", "/">>, <<"h", "t", "t", "p", ":", "/", "/">>,
    <<"h", "t", "t", "p", "s", ":", "/", "/", "a", ".", "i", "o", "/", "d", "/", "x", "?", "u", "=">> }

UrlHosts ==
  { DriveMarker, <<"d", "r", "i", "v", "e", ".", "g", "o", "o", "g", "l", "e", ".", "c", "o", "m", "/", "o", "p", "e", "n", "?", "i", "d", "=">>,
    <<"a", ".", "i", "o", "/">> }

UrlIds ==
  { << >>, <<"a", "B", "3">>, <<"a", "-", "b", "_", "1">>, <<"b", ".", "p", "d", "f">> }

UrlTails ==
  { << >>, ViewSuffix, <<"/", "v", "i", "e", "w", "?", "u", "s", "p", "=", "s", "h", "a", "r", "i", "n", "g">>,
    <<"/", "e", "d", "i", "t">> }

Urls ==
  { << >> } \cup
  { h \o o \o i \o t : h \in UrlHeads, o \in UrlHosts, i \in UrlIds, t \in UrlTails }

\* the list page: the PDF button of a card, rendered when book.pdf is truthy
openPDF(pdfUrl) ==
  /\ ui.page = "list"
  /\ pdfUrl # << >>
  /\ ui' = [ui EXCEPT !.opened = ListLink(pdfUrl)]
  /\ UNCHANGED server

\* the detail page: the PDF button
DetailOpenPDF ==
  /\ ui.page = "detail"
  /\ IF ui.pdf # << >>
     THEN ui' = [ui EXCEPT !.opened = DetailLink(ui.pdf)]
     ELSE UNCHANGED ui
  /\ UNCHANGED server

\* ------------------------------------------------------------- client: pages
\* fetch rejected: there is no response
NetErr == 0

\* what a fetch settles with: no response, or the status of the response
Outcomes == {NetErr, 200, 201, 400, 404, 500}

\* the cards of the list page
BookIds == {1, 2}

\* response.ok
ResponseOk_Below500(status) == status >= 200 /\ status < 500

ResponseOk(status) == status >= 200 /\ status <= 299

ConnectError ==
  "Failed to connect to backend server. Make sure it's running on http://localhost:5000"

\* an awaited fetch of handler fn
Call(fn, method, url) == [fn |-> fn, method |-> method, url |-> url]

BookUrl(id) == <<"/books/", id>>

Awaiting(u, c) == [u EXCEPT !.calls = @ (+) SetToBag({c})]

Settled(u, c) == [u EXCEPT !.calls = @ (-) SetToBag({c})]

CanFetch == BagCardinality(ui.calls) < MaxCalls

\* a page after its first render: useEffect has called the page's load
Mount(page, id) ==
  [UiIdle EXCEPT !.page = page, !.bookId = id, !.isLoading = TRUE,
                 !.calls = SetToBag({IF page = "list"
                                     THEN Call("initializeApp", "GET", <<"/health">>)
                                     ELSE Call("fetchBook", "GET", BookUrl(id))})]

\* initializeApp up to its first await, the error left as it is
initializeApp_KeepsError(u) ==
  Awaiting([u EXCEPT !.isLoading = TRUE],
           Call("initializeApp", "GET", <<"/health">>))

\* initializeApp up to its first await
initializeApp(u) ==
  Awaiting([u EXCEPT !.error = NULL, !.isLoading = TRUE],
           Call("initializeApp", "GET", <<"/health">>))

\* fetchBook up to its await
fetchBook(u) ==
  Awaiting([u EXCEPT !.error = NULL, !.isLoading = TRUE],
           Call("fetchBook", "GET", BookUrl(u.bookId)))

\* handleSubmit up to its await
handleSubmit(u) ==
  Awaiting([u EXCEPT !.error = NULL],
           IF u.editingBook # NoEdit
           THEN Call("handleSubmit", "PUT", BookUrl(u.editingBook))
           ELSE Call("handleSubmit", "POST", <<"/books">>))

\* ApiService.request: what the promise settles with for each outcome of fetch
request(o) ==
  IF o = NetErr THEN "throws"
  ELSE IF ~ResponseOk(o) THEN "throws" ELSE "returns"

\* the rest of the handler of call c once its fetch settled with outcome o
Continue(u, c, o) ==
  LET v == Settled(u, c)
  IN CASE c.fn = "initializeApp" /\ c.url = <<"/health">> ->
            IF ResponseOk(o)
            THEN Awaiting(v, Call("initializeApp", "GET", <<"/books">>))
            ELSE [v EXCEPT !.error = ConnectError, !.isLoading = FALSE]
       [] c.fn = "initializeApp" /\ c.url = <<"/books">> ->
            IF ResponseOk(o)
            THEN [v EXCEPT !.loaded = TRUE, !.isLoading = FALSE]
            ELSE [v EXCEPT !.error = ConnectError, !.isLoading = FALSE]
       [] c.fn = "handleSubmit" ->
            IF ResponseOk(o)
            THEN [initializeApp(v) EXCEPT !.formData = "empty",
                                          !.isAddingBook = FALSE,
                                          !.editingBook = NoEdit]
            ELSE [v EXCEPT !.error = IF c.method = "PUT"
                                     THEN "Failed to update book"
                                     ELSE "Failed to create book"]
       [] c.fn = "handleDelete" /\ u.page = "list" ->
            IF ResponseOk(o)
            THEN initializeApp(v)
            ELSE [v EXCEPT !.error = "Failed to delete book"]
       [] c.fn = "fetchBook" ->
            IF ResponseOk(o)
            THEN [v EXCEPT !.loaded = TRUE, !.formData = "book", !.isLoading = FALSE]
            ELSE IF o = 404
                 THEN [v EXCEPT !.error = "Book not found", !.isLoading = FALSE]
                 ELSE [v EXCEPT !.error = "Failed to load book details",
                                !.isLoading = FALSE]
       [] c.fn = "handleUpdate" ->
            IF ResponseOk(o)
            THEN [v EXCEPT !.loaded = TRUE, !.isEditing = FALSE]
            ELSE [v EXCEPT !.error = "Failed to update book"]
       [] c.fn = "handleDelete" /\ u.page = "detail" ->
            IF ResponseOk(o)
            THEN Mount("list", NoEdit)
            ELSE [v EXCEPT !.error = "Failed to delete book"]

\* what the list page renders
ListLoading == ui.page = "list" /\ ui.isLoading
ListError == ui.page = "list" /\ ~ui.isLoading /\ ui.error # NULL
ListMain == ui.page = "list" /\ ~ui.isLoading /\ ui.error = NULL
ListForm == ListMain /\ ui.isAddingBook

\* what the detail page renders
DetailError == ui.page = "detail" /\ ~ui.isLoading /\ (ui.error # NULL \/ ~ui.loaded)
DetailMain == ui.page = "detail" /\ ~ui.isLoading /\ ui.error = NULL /\ ui.loaded

\* an awaited fetch settles
FetchSettles(c, o) ==
  /\ BagIn(c, ui.calls)
  /\ ui' = Continue(ui, c, o)
  /\ UNCHANGED server

\* list page: Retry Connection
RetryConnection ==
  /\ ListError
  /\ CanFetch
  /\ ui' = initializeApp(ui)
  /\ UNCHANGED server

\* list page: Add Book, the edited book left as it is
AddBook_KeepsEditing ==
  /\ ListMain
  /\ ui' = [ui EXCEPT !.isAddingBook = TRUE, !.formData = "empty", !.lastOpen = <<"add">>]
  /\ UNCHANGED server

\* list page: Add Book
AddBook ==
  /\ ListMain
  /\ ui' = [ui EXCEPT !.isAddingBook = TRUE, !.editingBook = NoEdit,
                      !.formData = "empty", !.lastOpen = <<"add">>]
  /\ UNCHANGED server

\* list page: Edit on the card of book
handleEdit(book) ==
  /\ ListMain
  /\ ui.loaded
  /\ ui' = [ui EXCEPT !.editingBook = book, !.formData = "book",
                      !.isAddingBook = TRUE, !.lastOpen = <<"edit", book>>]
  /\ UNCHANGED server

\* list page: Cancel of the form
CancelForm ==
  /\ ListForm
  /\ ui' = [ui EXCEPT !.isAddingBook = FALSE]
  /\ UNCHANGED server

\* either page: typing in the form
ChangeForm ==
  /\ ListForm \/ (DetailMain /\ ui.isEditing)
  /\ ui' = [ui EXCEPT !.formData = "typed"]
  /\ UNCHANGED server

\* list page: submit of the form
SubmitForm ==
  /\ ListForm
  /\ CanFetch
  /\ ui' = handleSubmit(ui)
  /\ UNCHANGED server

\* list page: Delete on the card of book id, confirmed
handleDelete(id) ==
  /\ ListMain
  /\ ui.loaded
  /\ CanFetch
  /\ ui' = Awaiting([ui EXCEPT !.error = NULL],
                    Call("handleDelete", "DELETE", BookUrl(id)))
  /\ UNCHANGED server

\* list page: click on the card of book id
OpenBook(id) ==
  /\ ListMain
  /\ ui.loaded
  /\ ui' = Mount("detail", id)
  /\ UNCHANGED server

\* detail page: Retry
RetryFetch ==
  /\ DetailError
  /\ CanFetch
  /\ ui' = fetchBook(ui)
  /\ UNCHANGED server

\* detail page: Go Back, Back to Library
GoBack ==
  /\ ui.page = "detail"
  /\ ~ui.isLoading
  /\ ui' = Mount("list", NoEdit)
  /\ UNCHANGED server

\* detail page: Edit, and Cancel of the form
SetIsEditing(b) ==
  /\ DetailMain
  /\ ui.isEditing # b
  /\ ui' = [ui EXCEPT !.isEditing = b]
  /\ UNCHANGED server

\* detail page: submit of the form
handleUpdate ==
  /\ DetailMain
  /\ ui.isEditing
  /\ CanFetch
  /\ ui' = Awaiting([ui EXCEPT !.error = NULL],
                    Call("handleUpdate", "PUT", BookUrl(ui.bookId)))
  /\ UNCHANGED server

\* detail page: Delete, confirmed
DetailDelete ==
  /\ DetailMain
  /\ ~ui.isEditing
  /\ CanFetch
  /\ ui' = Awaiting([ui EXCEPT !.error = NULL],
                    Call("handleDelete", "DELETE", BookUrl(ui.bookId)))
  /\ UNCHANGED server

\* ------------------------------------------------------------- specifications
\* the whole server: the probe, both branches of every handler
Next ==
  \/ \E err \in BOOLEAN : ProbeCallback(err) /\ UNCHANGED ui
  \/ Root /\ UNCHANGED ui
  \/ Health /\ UNCHANGED ui
  \/ ListBooks /\ UNCHANGED ui
  \/ \E p \in Params : GetBook(p) /\ UNCHANGED ui
  \/ \E b \in PostBodies : PostBook(b) /\ UNCHANGED ui
  \/ \E p \in Params, b \in PutBodies : PutBook(p, b) /\ UNCHANGED ui
  \/ \E p \in Params : DeleteBook(p) /\ UNCHANGED ui
  \/ \E q \in BagToSet(inflight), ok \in BOOLEAN : QueryDone(q, ok) /\ UNCHANGED ui

Spec == Init /\ [][Next]_vars

\* the requests that may await the store
Requests ==
  {Req("LIST", NoParam, NoBody)}
    \cup {Req(op, p, NoBody) : op \in {"GET", "DELETE"}, p \in Params}
    \cup {Req("POST", NoParam, b) : b \in PostBodies}
    \cup {Req("PUT", p, b) : p \in Params, b \in PutBodies}

\* every awaited query settles: the store answers or the driver reports an error
FairStore ==
  \A q \in Requests : WF_vars(\E ok \in BOOLEAN : QueryDone(q, ok) /\ UNCHANGED ui)

\* the server with one request of each route and each path, every query settling
NextFair ==
  \/ \E err \in BOOLEAN : ProbeCallback(err) /\ UNCHANGED ui
  \/ ListBooks /\ UNCHANGED ui
  \/ GetBook(IdParam(1)) /\ UNCHANGED ui
  \/ \E b \in {B_Dune, B_EmptyTitle} : PostBook(b) /\ UNCHANGED ui
  \/ PutBook(IdParam(1), B_EmptyTitle) /\ UNCHANGED ui
  \/ DeleteBook(IdParam(1)) /\ UNCHANGED ui
  \/ \E q \in BagToSet(inflight), ok \in BOOLEAN : QueryDone(q, ok) /\ UNCHANGED ui

SpecFair == Init /\ [][NextFair]_vars /\ FairStore

\* the server in fallback mode from its first instruction, every path id
NextMock ==
  \/ ListBooks /\ UNCHANGED ui
  \/ \E p \in ParamsWide : GetBook(p) /\ UNCHANGED ui
  \/ \E b \in PostBodies : PostBook(b) /\ UNCHANGED ui
  \/ \E p \in ParamsWide, b \in PutBodies : PutBook(p, b) /\ UNCHANGED ui
  \/ \E p \in ParamsWide : DeleteBook(p) /\ UNCHANGED ui

SpecMock == InitThrew /\ [][NextMock]_vars

\* the path ids of the requests of NextFrame: the first three, a created and
\* a non-numeric one
FrameParams == {IdParam(1), IdParam(2), IdParam(3), IdParam(5), <<"x">>}

\* the server in fallback mode, all seven routes
NextFrame ==
  \/ Root /\ UNCHANGED ui
  \/ Health /\ UNCHANGED ui
  \/ ListBooks /\ UNCHANGED ui
  \/ \E p \in FrameParams : GetBook(p) /\ UNCHANGED ui
  \/ \E b \in {B_Dune, B_EmptyTitle} : PostBook(b) /\ UNCHANGED ui
  \/ \E p \in FrameParams, b \in PutBodies : PutBook(p, b) /\ UNCHANGED ui
  \/ \E p \in FrameParams : DeleteBook(p) /\ UNCHANGED ui

SpecFrame == InitThrew /\ [][NextFrame]_vars

\* a page of the client showing one book, the server left alone
InitLink ==
  /\ useMockData = TRUE
  /\ probe = "threw"
  /\ mockBooks = SeedBooks
  /\ dbRows = {}
  /\ dbSeq = 0
  /\ inflight = EmptyBag
  /\ res = NoRes
  /\ \E page \in {"list", "detail"}, pdf \in Urls :
       ui = [UiIdle EXCEPT !.page = page, !.pdf = pdf]

NextLink ==
  \/ openPDF(ui.pdf)
  \/ DetailOpenPDF

SpecLink == InitLink /\ [][NextLink]_vars

\* the client: a page is opened, the user clicks, the fetches settle
InitClient ==
  /\ useMockData = TRUE
  /\ probe = "threw"
  /\ mockBooks = SeedBooks
  /\ dbRows = {}
  /\ dbSeq = 0
  /\ inflight = EmptyBag
  /\ res = NoRes
  /\ ui \in {Mount("list", NoEdit)} \cup {Mount("detail", id) : id \in BookIds}

NextClient ==
  \/ \E c \in BagToSet(ui.calls), o \in Outcomes : FetchSettles(c, o)
  \/ RetryConnection
  \/ AddBook
  \/ \E book \in BookIds : handleEdit(book)
  \/ CancelForm
  \/ ChangeForm
  \/ SubmitForm
  \/ \E id \in BookIds : handleDelete(id)
  \/ \E id \in BookIds : OpenBook(id)
  \/ RetryFetch
  \/ GoBack
  \/ \E b \in BOOLEAN : SetIsEditing(b)
  \/ handleUpdate
  \/ DetailDelete

SpecClient == InitClient /\ [][NextClient]_vars

\* every awaited fetch settles: the response arrives or the fetch rejects
Calls ==
  {Call("initializeApp", "GET", u) : u \in {<<"/health">>, <<"/books">>}}
    \cup {Call("handleSubmit", "POST", <<"/books">>)}
    \cup {Call(fn, "GET", BookUrl(id)) : fn \in {"fetchBook"}, id \in BookIds}
    \cup {Call(fn, "PUT", BookUrl(id)) : fn \in {"handleSubmit", "handleUpdate"}, id \in BookIds}
    \cup {Call(fn, "DELETE", BookUrl(id)) : fn \in {"handleDelete"}, id \in BookIds}

FairClient ==
  \A c \in Calls : WF_vars(\E o \in Outcomes : FetchSettles(c, o))

SpecClientFair == SpecClient /\ FairClient

\* ------------------------------------------------------------- properties
Ids(books) == {books[k].id : k \in 1..Len(books)}

IdSeq(books) == [k \in 1..Len(books) |-> books[k].id]

Fields == {"title", "author", "category", "photo", "pdf"}

\* a response was sent in this step
Answered == res' # res

\* the request answered in this step was issued after the previous answer: a
\* relational answer that follows a fallback answer belongs to a request that
\* was already awaiting the store when the flag was set
IssuedAfter == ~(res.mode = "mock" /\ res'.mode = "pg")

\* C1: in fallback mode no two records of the store have the same id.
C1_UniqueIds ==
  useMockData =>
    \A i, j \in 1..Len(mockBooks) : i # j => mockBooks[i].id # mockBooks[j].id

\* a create has just been answered in a store that has seen a delete (an id
\* below the new one is gone) and an update (a record with an emptied title)
C1_Witness ==
  /\ useMockData
  /\ res.op = "POST" /\ res.status = 201
  /\ \E n \in 1..res.book.id : n \notin Ids(mockBooks)
  /\ \E k \in 1..Len(mockBooks) : mockBooks[k].title = ""

\* C2: in fallback mode GET /books answers the whole store in strictly
\* ascending id order, and the first answer of a process that has served
\* nothing yet is the four seeded records with ids 1,2,3,4 in that order.
C2_ListAscending ==
  [][/\ (res'.op = "LIST" /\ res'.mode = "mock") =>
          /\ res'.status = 200
          /\ res'.list = mockBooks'
          /\ \A k \in 1..(Len(res'.list) - 1) : res'.list[k].id < res'.list[k + 1].id
     /\ (res = NoRes /\ res'.op = "LIST" /\ res'.mode = "mock") =>
          /\ IdSeq(res'.list) = <<1, 2, 3, 4>>
          /\ [k \in 1..4 |-> res'.list[k].title] =
               <<"Clean Code", "Sapiens", "1984", "The Art of War">>
          /\ [k \in 1..4 |-> res'.list[k].author] =
               <<"Robert Martin", "Yuval Harari", "George Orwell", "Sun Tzu">>]_vars

\* a list answered after a delete of a seeded record and a create
C2_Witness ==
  /\ res.op = "LIST" /\ res.mode = "mock"
  /\ IdSeq(res.list) = <<2, 3, 4, 5>>

\* C3: every book request of one process is served by the same backing mode:
\* two consecutive answers never come from different modes.
C3_SingleMode ==
  [][(res.mode \in {"mock", "pg"} /\ res'.mode \in {"mock", "pg"}) =>
       res'.mode = res.mode]_vars

\* C4: when the startup probe fails, no book request is executed against the
\* relational store.
C4_NoRequestOnUnreachableStore ==
  probe = "failed" => res.mode # "pg"

\* C5: the mode flag never returns from fallback to relational, and the probe,
\* once settled, is never run again.
C5_FallbackIsPermanent ==
  [][/\ useMockData => useMockData'
     /\ probe # "pending" => probe' = probe]_vars

\* the probe failed, a request was served from the fallback store, and a
\* relational request issued before the switch is still awaiting the store
C5_Witness ==
  /\ useMockData /\ probe = "failed"
  /\ res.mode = "mock" /\ res.status = 201
  /\ inflight # EmptyBag

\* C6: POST /books with title or author missing or empty is answered 400 in
\* both modes before any store access: no store changes, no query is issued.
C6_InvalidPostRejected ==
  [][(/\ Answered
      /\ res'.op = "POST"
      /\ \/ res'.body.title \in {UNDEF, ""}
         \/ res'.body.author \in {UNDEF, ""}) =>
       /\ res'.status = 400
       /\ res'.mode = "none"
       /\ UNCHANGED <<mockBooks, dbRows, dbSeq, inflight>>]_vars

\* a body without author rejected in relational mode on a non-empty table
C6_Witness ==
  /\ ~useMockData
  /\ dbRows # {}
  /\ res.op = "POST" /\ res.status = 400 /\ res.body = B_NoAuthor

\* C7: in fallback mode a valid POST /books is answered 201 with a record whose
\* id is the largest id of the store (0 for an empty store) plus one, an id no
\* stored record has, whose category, photo and pdf are the submitted values or
\* "" when omitted, and that record is appended to the store.
C7_CreateAssignsMaxPlusOne ==
  [][(Answered /\ res'.op = "POST" /\ res'.mode = "mock") =>
       LET ids == Ids(mockBooks)
           top == IF ids = {} THEN 0 ELSE CHOOSE m \in ids : \A x \in ids : x <= m
           b == res'.book
           sent == res'.body
       IN /\ res'.status = 201
          /\ b.id = top + 1
          /\ b.id \notin ids
          /\ b.title = sent.title /\ b.author = sent.author
          /\ \A f \in {"category", "photo", "pdf"} :
               b[f] = IF sent[f] = UNDEF THEN "" ELSE sent[f]
          /\ mockBooks' = mockBooks \o <<b>>]_vars

\* a create with only title and author answered on an emptied store
C7_Witness ==
  /\ res.op = "POST" /\ res.status = 201 /\ res.mode = "mock"
  /\ res.body = B_Dune
  /\ res.book.id = 1
  /\ Len(mockBooks) = 1

\* C8: fallback ids follow max-plus-one and never fill gaps: a create gets an id
\* above every stored id, and a create right after the delete of a record that
\* was not the maximum gets the maximum plus one, not the freed id.
C8_MaxPlusOneNoGapFill ==
  [][(Answered /\ res'.op = "POST" /\ res'.status = 201 /\ res'.mode = "mock") =>
       LET new == res'.book.id
           freed == ParseInt(res.param)
       IN /\ \A k \in 1..Len(mockBooks) : new > mockBooks[k].id
          /\ (/\ res.op = "DELETE" /\ res.status = 200
              /\ \E k \in 1..Len(mockBooks) : mockBooks[k].id > freed) =>
               /\ new # freed
               /\ \E k \in 1..Len(mockBooks) : new = mockBooks[k].id + 1]_vars

\* id 1 was deleted while 4 was stored, and the create that followed got 5
C8_Witness ==
  /\ res.op = "POST" /\ res.status = 201 /\ res.mode = "mock"
  /\ res.book.id = 5
  /\ IdSeq(mockBooks) = <<2, 3, 4, 5>>

\* C9: a successful create followed at once by GET /books/:id with the returned
\* id is answered 200 with a record equal to the body in every submitted field
\* (an answer 500 for a store failure is not counted against the claim).
C9_CreateThenGet ==
  [][(/\ res.op = "POST" /\ res.status = 201
      /\ res'.op = "GET" /\ ParseInt(res'.param) = res.book.id
      /\ IssuedAfter) =>
       \/ res'.status = 500 /\ res'.mode = "pg"
       \/ /\ res'.status = 200
          /\ \A f \in Fields : res.body[f] # UNDEF => res'.book[f] = res.body[f]]_vars

\* C10: a successful DELETE /books/:id followed at once by GET /books/:id for
\* the same id is answered 404 (an answer 500 for a store failure is not
\* counted against the claim).
C10_DeleteThenGet ==
  [][(/\ res.op = "DELETE" /\ res.status = 200
      /\ res'.op = "GET" /\ ParseInt(res'.param) = ParseInt(res.param)
      /\ IssuedAfter) =>
       \/ res'.status = 500 /\ res'.mode = "pg"
       \/ res'.status = 404]_vars

\* ------------------------------------------------------------- properties, second part
DbIds(rows) == {r.id : r \in rows}

\* the relational store could not be reached for the answered request
StoreDown(r) == r.mode = "pg" /\ r.status = 500 /\ r.msg = "connect ECONNREFUSED"

\* the path id of answer r is the id of a record of the store that served it
\* (the stores as they were before the step)
Stored(r) ==
  LET id == ParseInt(r.param)
  IN IF r.mode = "mock" THEN id \in Ids(mockBooks) ELSE id \in DbIds(dbRows)

\* the number of records GET /books returns from the active store
Listed == IF useMockData THEN Len(mockBooks) ELSE Cardinality(dbRows)

\* a relational request was answered in this step
RelAnswered == BagCardinality(inflight') < BagCardinality(inflight)

\* C11: PUT and DELETE on an id no stored record has answer 404 with a not-found
\* message and leave the store unchanged (an answer 500 for an unreachable
\* store is not counted against the claim).
C11_MissingIdNotFound ==
  [][(/\ Answered
      /\ res'.op \in {"PUT", "DELETE"}
      /\ ~Stored(res')
      /\ ~StoreDown(res')) =>
       /\ res'.status = 404
       /\ res'.msg = "Book not found"
       /\ UNCHANGED <<mockBooks, dbRows, dbSeq>>]_vars

\* C12: the number of records GET /books returns grows by exactly 1 with each
\* successful create, shrinks by exactly 1 with each successful delete and is
\* left alone by every other answered request.
C12_ListLength ==
  [][Answered =>
       Listed' = Listed
                 + (IF res'.op = "POST" /\ res'.status = 201 THEN 1 ELSE 0)
                 - (IF res'.op = "DELETE" /\ res'.status = 200 THEN 1 ELSE 0)]_vars

\* C13: a successful PUT replaces all five mutable fields by the body's values,
\* an omitted field being reset (undefined in the fallback store, NULL in the
\* table) and never kept; the answer is the record as stored.
C13_PutReplacesAllFields ==
  [][(Answered /\ res'.op = "PUT" /\ res'.status = 200) =>
       LET b == res'.book
           reset == IF res'.mode = "mock" THEN UNDEF ELSE NULL
       IN /\ \A f \in Fields :
               b[f] = IF res'.body[f] = UNDEF THEN reset ELSE res'.body[f]
          /\ b.id = ParseInt(res'.param)
          /\ IF res'.mode = "mock"
             THEN \E k \in 1..Len(mockBooks') : mockBooks'[k] = b
             ELSE b \in dbRows']_vars

\* a PUT without category, photo and pdf answered by the table: they are NULL
C13_Witness ==
  /\ res.op = "PUT" /\ res.status = 200 /\ res.mode = "pg"
  /\ res.body = B_EmptyTitle
  /\ res.book.category = NULL /\ res.book.photo = NULL /\ res.book.pdf = NULL

\* C14: a successful PUT leaves the record's id equal to the path id whatever
\* the body carries, and no step changes the id of a stored record: ids only
\* appear by a create and disappear by a delete.
C14_IdImmutable ==
  [][/\ (Answered /\ res'.op = "PUT" /\ res'.status = 200) =>
          /\ res'.book.id = ParseInt(res'.param)
          /\ IdSeq(mockBooks') = IdSeq(mockBooks)
          /\ DbIds(dbRows') = DbIds(dbRows)
     /\ IF Answered /\ res'.op = "DELETE" /\ res'.status = 200
        THEN /\ DbIds(dbRows') \subseteq DbIds(dbRows)
             /\ \/ IdSeq(mockBooks') = IdSeq(mockBooks)
                \/ \E k \in 1..Len(mockBooks) :
                     IdSeq(mockBooks') = SubSeq(IdSeq(mockBooks), 1, k - 1)
                                         \o SubSeq(IdSeq(mockBooks), k + 1, Len(mockBooks))
        ELSE /\ DbIds(dbRows) \subseteq DbIds(dbRows')
             /\ Len(mockBooks') >= Len(mockBooks)
             /\ SubSeq(IdSeq(mockBooks'), 1, Len(mockBooks)) = IdSeq(mockBooks)]_vars

\* PUT /books/1 with a body that carries id 9 was answered with the record of id 1
C14_Witness ==
  /\ res.op = "PUT" /\ res.status = 200
  /\ res.body = B_WithId
  /\ res.book.id = 1

\* C15: GET /books/:id answers 404 when the path id is not a number or no
\* record has it, in both modes, and 200 with the matching record otherwise
\* (an answer 500 for an unreachable store is not counted against the claim).
C15_GetNotFound ==
  [][(Answered /\ res'.op = "GET" /\ ~StoreDown(res')) =>
       IF ParseInt(res'.param) = NaN \/ ~Stored(res')
       THEN res'.status = 404
       ELSE res'.status = 200 /\ res'.book.id = ParseInt(res'.param)]_vars

\* C16: every stored record has a non-empty title and a non-empty author.
C16_TitleAuthorNonEmpty ==
  /\ \A k \in 1..Len(mockBooks) :
       mockBooks[k].title \notin {"", UNDEF, NULL} /\ mockBooks[k].author \notin {"", UNDEF, NULL}
  /\ \A r \in dbRows :
       r.title \notin {"", UNDEF, NULL} /\ r.author \notin {"", UNDEF, NULL}

\* C17: both modes have the same contract: what the table answers to a request
\* is what the fallback branch answers to it on a store of the same content,
\* in status and in title, author, category, photo and pdf of the returned
\* book (an answer 500 for an unreachable store is not counted).
C17_SameContract ==
  [][(RelAnswered /\ ~StoreDown(res')) =>
       LET books == SortById(dbRows)
           k == FindIndex(books, ParseInt(res'.param))
           same(b) == \A f \in Fields : res'.book[f] = b[f]
       IN CASE res'.op = "LIST" -> res'.status = 200 /\ res'.list = books
            [] res'.op = "POST" ->
                 res'.status = 201 /\ same(NewBook(books, res'.body))
            [] res'.op = "GET" ->
                 IF k = 0 THEN res'.status = 404
                 ELSE res'.status = 200 /\ same(books[k])
            [] res'.op = "PUT" ->
                 IF k = 0 THEN res'.status = 404
                 ELSE res'.status = 200 /\ same(Updated(books[k], res'.body))
            [] res'.op = "DELETE" ->
                 res'.status = IF k = 0 THEN 404 ELSE 200]_vars

\* C18 as stated: GET /books always succeeds with 200.
C18_ListAlwaysSucceeds ==
  [][(Answered /\ res'.op = "LIST") => res'.status = 200]_vars

\* C18 as amended: GET /books answers 200 with every record of the store that
\* serves it, an empty store giving an empty sequence, unless the relational
\* store fails, which is answered 500 and changes nothing.
C18_ListSucceedsUnlessStoreFails ==
  [][(Answered /\ res'.op = "LIST") =>
       \/ /\ res'.status = 200 /\ res'.mode = "mock"
          /\ Len(res'.list) = Len(mockBooks')
          /\ \A k \in 1..Len(mockBooks') : res'.list[k] = mockBooks'[k]
       \/ /\ res'.status = 200 /\ res'.mode = "pg"
          /\ Len(res'.list) = Cardinality(dbRows')
          /\ {res'.list[k] : k \in 1..Len(res'.list)} = dbRows'
       \/ /\ res'.status = 500 /\ res'.mode = "pg"
          /\ UNCHANGED <<mockBooks, dbRows, dbSeq>>]_vars

\* the empty table listed: 200 with the empty sequence
C18_Witness ==
  /\ res.op = "LIST" /\ res.status = 200 /\ res.mode = "pg"
  /\ dbRows = {} /\ dbSeq = 1
  /\ res.list = << >>

\* C19: a relational request answered 500 carries an error message and is
\* terminal: it leaves the awaited queries and is not issued again, the flag
\* and the probe keep their values, neither the fallback array nor the table
\* changes.
C19_StoreErrorTerminal ==
  [][(RelAnswered /\ res'.status = 500) =>
       /\ res'.mode = "pg"
       /\ res'.msg # ""
       /\ BagCardinality(inflight') = BagCardinality(inflight) - 1
       /\ \A q \in BagToSet(inflight') : inflight'[q] <= inflight[q]
       /\ useMockData' = useMockData
       /\ probe' = probe
       /\ UNCHANGED <<mockBooks, dbRows, dbSeq>>]_vars

\* the probe succeeded and a later DELETE found the store unreachable
C19_Witness ==
  /\ ~useMockData /\ probe = "ok"
  /\ res.op = "DELETE" /\ StoreDown(res)
  /\ dbRows # {}

\* the <id> of a URL containing drive.google.com/file/d/<id>
DriveId(s) ==
  LET at == {i \in 1..(Len(s) - Len(DriveMarker) + 1) :
               SubSeq(s, i, i + Len(DriveMarker) - 1) = DriveMarker}
  IN IF at = {} THEN << >> ELSE Run(s, Least(at) + Len(DriveMarker))

Canonical(s) ==
  IF DriveId(s) # << >> THEN DrivePrefix \o DriveId(s) \o ViewSuffix ELSE s

\* C20: a stored pdf URL containing drive.google.com/file/d/<id> is opened as
\* https://drive.google.com/file/d/<id>/view with the same <id>, every other
\* URL is opened unchanged, an opened URL normalizes to itself, the stored
\* value is never modified, and both pages compute the same URL.
C20_LinkNormalization ==
  [][ /\ ui'.pdf = ui.pdf
      /\ ui'.opened # NoUrl =>
           /\ ui'.opened = Canonical(ui.pdf)
           /\ ListLink(ui'.opened) = ui'.opened
           /\ DetailLink(ui'.opened) = ui'.opened
           /\ ListLink(ui.pdf) = DetailLink(ui.pdf) ]_vars

\* C20 without the same-<id> part: idempotence, agreement, the stored value
C20_IdempotentAndAgree ==
  [][ /\ ui'.pdf = ui.pdf
      /\ ui'.opened # NoUrl =>
           /\ ListLink(ui'.opened) = ui'.opened
           /\ DetailLink(ui'.opened) = ui'.opened
           /\ Canonical(ui'.opened) = ui'.opened
           /\ ListLink(ui.pdf) = DetailLink(ui.pdf)
           /\ ~Includes(ui.pdf, DriveMarker) => ui'.opened = ui.pdf ]_vars

\* ------------------------------------------------------------- properties, third part
\* the outcomes of a fetch that are failures: no response, or a non-2xx status
Failures == {o \in Outcomes : o < 200 \/ o > 299}

\* C21: every failure of any awaited request (a non-2xx response or a network
\* failure) puts the page in the same error state, whatever the failure is:
\* 400, 404 and 500 are not told apart.
C21_GenericError ==
  \A c \in BagToSet(ui.calls) : \A o1, o2 \in Failures :
    /\ request(o1) = "throws"
    /\ Continue(ui, c, o1).error # NULL
    /\ Continue(ui, c, o1) = Continue(ui, c, o2)

\* C21 as amended: every failure of any awaited request sets the page's error
\* (shown with its retry button once the page is not loading), and the state
\* does not depend on which failure it is, except that the detail page's load
\* tells a 404 apart from the other failures.
C21_GenericErrorBut404 ==
  \A c \in BagToSet(ui.calls) : \A o1, o2 \in Failures :
    /\ request(o1) = "throws"
    /\ Continue(ui, c, o1).error # NULL
    /\ (c.fn = "fetchBook" /\ (o1 = 404) # (o2 = 404))
         \/ Continue(ui, c, o1) = Continue(ui, c, o2)

\* the detail page shows the error of a load answered 404
C21_Witness ==
  /\ ui.page = "detail"
  /\ ~ui.isLoading
  /\ ui.error = "Book not found"

\* one whole create applied to a store
SerialCreate(books, body) ==
  LET id == IF books = << >> THEN 1 ELSE 1 + Max(Ids(books))
      def(v) == IF v \in {UNDEF, NULL, ""} THEN "" ELSE v
  IN books \o << [id |-> id, title |-> body.title, author |-> body.author,
                  category |-> def(body.category), photo |-> def(body.photo),
                  pdf |-> def(body.pdf)] >>

\* one whole update of id applied to a store
SerialUpdate(books, id, body) ==
  [k \in 1..Len(books) |->
     IF books[k].id = id
     THEN [id |-> id, title |-> body.title, author |-> body.author,
           category |-> body.category, photo |-> body.photo, pdf |-> body.pdf]
     ELSE books[k]]

\* one whole delete of id applied to a store
SerialDelete(books, id) == SelectSeq(books, LAMBDA b : b.id # id)

AnswerTo(r, q) == r.op = q.op /\ r.param = q.param /\ r.body = q.body /\ r.mode = "pg"

\* a step accepts one request without a response, or sends the one response of
\* one awaited request, or handles and answers one request, or is the probe
OneResponsePerStep ==
  [][LET n == BagCardinality(inflight)
          m == BagCardinality(inflight')
      IN /\ m = n + 1 => res' = res /\ mockBooks' = mockBooks
         /\ m = n - 1 =>
              /\ \E q \in BagToSet(inflight) :
                   inflight' = inflight (-) SetToBag({q}) /\ AnswerTo(res', q)
              /\ res'.status \in {200, 201, 404, 500}
              /\ mockBooks' = mockBooks
              /\ useMockData' = useMockData
         /\ m = n => /\ inflight' = inflight
                     /\ res' = res \/ res'.mode \in {"mock", "none"}
                     /\ res' # res => res'.status \in {200, 201, 400, 404}
         /\ m \in {n - 1, n, n + 1}]_vars

\* C23: every request receives exactly one response on every path. A request
\* that reaches the store awaits it without a response, then leaves the awaited
\* requests in the step that sends its one response, from the relational branch
\* and with the in-memory collection untouched, also after the flag flipped;
\* every other request is answered in the step that handles it; and every
\* awaited request is answered in the end.
C23_ExactlyOneResponse ==
  /\ OneResponsePerStep
  /\ \A q \in Requests : BagIn(q, inflight) ~> AnswerTo(res, q)

\* a request that awaited the store across the flip was answered by the
\* relational branch while the process is in fallback mode
C23_Witness ==
  /\ useMockData
  /\ probe = "failed"
  /\ res.mode = "pg"
  /\ inflight = EmptyBag

\* C24: frame conditions of the fallback store. GET /, GET /health, GET /books
\* and GET /books/:id never modify the store; a successful update or delete of
\* id X leaves every record with another id unchanged in all fields and leaves
\* the relative order of those records unchanged; a successful create leaves
\* all existing records unchanged.
C24_FallbackFrame ==
  [][LET X == ParseInt(res'.param)
         others(books) == SelectSeq(books, LAMBDA b : b.id # X)
     IN /\ res'.op \in {"ROOT", "HEALTH", "LIST", "GET"}
             => UNCHANGED <<mockBooks, dbRows, dbSeq, useMockData>>
        /\ (res'.op = "PUT" /\ res'.status = 200)
             => /\ others(mockBooks') = others(mockBooks)
                /\ Len(mockBooks') = Len(mockBooks)
                /\ \A k \in 1..Len(mockBooks) :
                     mockBooks[k].id # X => mockBooks'[k] = mockBooks[k]
        /\ (res'.op = "DELETE" /\ res'.status = 200)
             => /\ mockBooks' = others(mockBooks)
                /\ Len(mockBooks') = Len(mockBooks) - 1
        /\ (res'.op = "POST" /\ res'.status = 201)
             => /\ Len(mockBooks') = Len(mockBooks) + 1
                /\ \A k \in 1..Len(mockBooks) :
                     \E j \in 1..Len(mockBooks') : mockBooks'[j] = mockBooks[k]
        /\ res'.status \notin {200, 201} => mockBooks' = mockBooks]_vars

\* a record between two others was deleted and they stayed, in their order
C24_Witness ==
  /\ res.op = "DELETE" /\ res.status = 200
  /\ res.param = IdParam(2)
  /\ IdSeq(mockBooks) = <<1, 3, 4>>

\* the calls of handler fn among the awaited fetches of page state u
CallsOf(u, fn) == {c \in BagToSet(u.calls) : c.fn = fn}

CountOf(u, fn) ==
  LET cs == CallsOf(u, fn) IN BagCardinality([c \in cs |-> u.calls[c]])

\* the book of the last Edit click, when the form was last opened by Edit
LastEdited(u) == IF Len(u.lastOpen) = 2 THEN u.lastOpen[2] ELSE NoEdit

\* C25: in the list page's form, submit issues PUT /books/<id of the book of
\* the last Edit click> exactly when the form was opened by Edit, and POST
\* /books exactly when it was opened by Add Book, for any sequence of Add, Edit,
\* Cancel and Submit (Cancel closes the form and keeps the edited book); after a
\* successful submit the form is closed, the edited book is cleared and the
\* form fields are empty.
C25_SubmitFollowsOpener ==
  [][ /\ (ui.page = "list" /\ ui'.page = "list"
            /\ CountOf(ui', "handleSubmit") > CountOf(ui, "handleSubmit"))
          => /\ ui.isAddingBook
             /\ \E c \in CallsOf(ui', "handleSubmit") :
                  /\ ui'.calls = ui.calls (+) SetToBag({c})
                  /\ ui.lastOpen[1] \in {"add", "edit"}
                  /\ ui.lastOpen[1] = "edit" <=>
                       (c.method = "PUT" /\ c.url = BookUrl(LastEdited(ui)))
                  /\ ui.lastOpen[1] = "add" <=>
                       (c.method = "POST" /\ c.url = <<"/books">>)
      /\ (ui.page = "list" /\ ui'.page = "list"
            /\ CountOf(ui', "handleSubmit") < CountOf(ui, "handleSubmit")
            /\ CountOf(ui', "initializeApp") > CountOf(ui, "initializeApp"))
          => /\ ~ui'.isAddingBook
             /\ ui'.editingBook = NoEdit
             /\ ui'.formData = "empty"
      /\ (ListForm /\ ui'.page = "list" /\ ui'.calls = ui.calls
            /\ ui.isAddingBook /\ ~ui'.isAddingBook)
          => ui'.editingBook = ui.editingBook ]_vars

\* Edit of book 1, Cancel, Edit of book 2, submit: PUT /books/2 is awaited
C25_Witness ==
  /\ ui.page = "list"
  /\ ui.lastOpen = <<"edit", 2>>
  /\ BagIn(Call("handleSubmit", "PUT", BookUrl(2)), ui.calls)
  /\ ~BagIn(Call("handleSubmit", "PUT", BookUrl(1)), ui.calls)

\* the page shows its data / its error screen
ShowsData(u) == ~u.isLoading /\ u.error = NULL /\ u.loaded
ShowsError(u) == ~u.isLoading /\ u.error # NULL

\* C26: every client load (initializeApp, fetchBook) leaves the loading state
\* in the end, whether the backend answers 2xx, non-2xx or the network fails;
\* when it ends the page shows either data or an error; and a retry from the
\* error state clears the error before it reloads.
C26_LoadEnds ==
  /\ ui.isLoading ~> ~ui.isLoading
  /\ [][ /\ (ui.isLoading /\ ~ui'.isLoading) => ShowsData(ui') \/ ShowsError(ui')
         /\ (ui.page = ui'.page /\ (ListError \/ DetailError)
               /\ CountOf(ui', "initializeApp") + CountOf(ui', "fetchBook")
                    > CountOf(ui, "initializeApp") + CountOf(ui, "fetchBook"))
             => ui'.error = NULL /\ ui'.isLoading ]_vars

\* the detail page's load has ended and the page shows the book
C26_Witness ==
  /\ ShowsData(ui)
  /\ ui.calls = EmptyBag
  /\ ui.page = "detail"

====
